---- MODULE Spec2Model ----
(***************************************************************************)
(* Task-Management-App: the request pipeline (JwtAuthGuard, RolesGuard,    *)
(* route metadata), the users/auth handlers behind it, and the task status *)
(* workflow built on STATUS_TRANSITIONS.                                   *)
(***************************************************************************)
EXTENDS Integers, Sequences, FiniteSets, TLC

\* ------------------------------------------------------------------ bounds
MaxUsers == 2
MaxTasks == 1
MaxClock == 2
MaxComments == 2

UserIds == 1..MaxUsers
TaskIds == 1..MaxTasks
Emails == {"a@x.io", "b@x.io"}

\* ------------------------------------------------------- enums and tables
UserRole == {"ADMIN", "MANAGER", "MEMBER"}

TaskStatus == {"TODO", "IN_PROGRESS", "IN_REVIEW", "DONE", "CANCELLED"}

STATUS_TRANSITIONS_reopen ==
  [s \in TaskStatus |->
     CASE s = "TODO"        -> <<"IN_PROGRESS", "CANCELLED">>
       [] s = "IN_PROGRESS" -> <<"IN_REVIEW", "TODO", "CANCELLED">>
       [] s = "IN_REVIEW"   -> <<"DONE", "IN_PROGRESS", "CANCELLED">>
       [] s = "DONE"        -> <<"IN_PROGRESS">>
       [] s = "CANCELLED"   -> <<>>]

STATUS_TRANSITIONS_skip ==
  [s \in TaskStatus |->
     CASE s = "TODO"        -> <<"IN_PROGRESS", "DONE", "CANCELLED">>
       [] s = "IN_PROGRESS" -> <<"IN_REVIEW", "TODO", "CANCELLED">>
       [] s = "IN_REVIEW"   -> <<"DONE", "IN_PROGRESS", "CANCELLED">>
       [] s = "DONE"        -> <<>>
       [] s = "CANCELLED"   -> <<>>]

STATUS_TRANSITIONS ==
  [s \in TaskStatus |->
     CASE s = "TODO"        -> <<"IN_PROGRESS", "CANCELLED">>
       [] s = "IN_PROGRESS" -> <<"IN_REVIEW", "TODO", "CANCELLED">>
       [] s = "IN_REVIEW"   -> <<"DONE", "IN_PROGRESS", "CANCELLED">>
       [] s = "DONE"        -> <<>>
       [] s = "CANCELLED"   -> <<>>]

\* Array.prototype.includes / some(x => x === v) on an array held as a sequence
Includes(arr, v) == \E i \in 1..Len(arr) : arr[i] = v

\* ------------------------------------------------------------ route metadata
\* A metadata slot is either undefined or holds the value SetMetadata stored.
NoPublic == [defined |-> FALSE, value |-> FALSE]
NoRoles == [defined |-> FALSE, value |-> <<>>]

\* @Public(): SetMetadata(IS_PUBLIC_KEY, true)
Public == [defined |-> TRUE, value |-> TRUE]

\* @Roles(...roles): SetMetadata(ROLES_KEY, roles)
Roles(roles) == [defined |-> TRUE, value |-> roles]

NoMeta == [isPublic |-> NoPublic, roles |-> NoRoles]

\* Reflector.getAllAndOverride(key, [handler, class]): the first target whose
\* metadata is not undefined wins.
RECURSIVE getAllAndOverride_classFirst(_, _)
getAllAndOverride_classFirst(metas, undef) ==
  IF metas = <<>> THEN undef
  ELSE IF metas[Len(metas)].defined THEN metas[Len(metas)]
  ELSE getAllAndOverride_classFirst(SubSeq(metas, 1, Len(metas) - 1), undef)

RECURSIVE getAllAndOverride(_, _)
getAllAndOverride(metas, undef) ==
  IF metas = <<>> THEN undef
  ELSE IF Head(metas).defined THEN Head(metas)
  ELSE getAllAndOverride(Tail(metas), undef)

\* ------------------------------------------------------------------ users
\* Passwords are held as sequences of characters; <<>> is no password.
Chars(class) ==
  CASE class = "a-z" -> {"a", "b", "d", "h", "o", "r", "s", "t", "w"}
    [] class = "A-Z" -> {"P"}
    [] class = "digit" -> {"0", "1", "2"}
    [] class = "@$!%*?&" -> {"@", "$", "!", "%", "*", "?", "&"}

\* What a client may send as a password.
PasswordInputs ==
  {<<"P", "a", "s", "s", "w", "0", "r", "d", "!">>,
   <<"$", "2", "b", "$", "P", "a", "s", "s", "w", "0", "r", "d">>,
   <<"s", "h", "o", "r", "t">>}

\* @MinLength(8) and @Matches(/^(?=.*[a-z])(?=.*[A-Z])(?=.*\d)(?=.*[@$!%*?&])
\* [A-Za-z\d@$!%*?&]/) on the password of RegisterDto and UpdateUserDto: the
\* pattern is anchored at the start only and consumes one character.
PasswordAccepted(p) ==
  /\ Len(p) >= 8
  /\ \A class \in {"a-z", "A-Z", "digit", "@$!%*?&"} :
       \E i \in 1..Len(p) : p[i] \in Chars(class)
  /\ p[1] \in Chars("a-z") \cup Chars("A-Z") \cup Chars("digit")
               \cup Chars("@$!%*?&")

Passwords == {p \in PasswordInputs : PasswordAccepted(p)}

\* The password in the bodies sent through the request pipeline; the account
\* services themselves are called with every password in SpecService.
RequestPasswords == {<<"P", "a", "s", "s", "w", "0", "r", "d", "!">>}

\* String.prototype.startsWith
StartsWith(str, prefix) ==
  Len(str) >= Len(prefix) /\ SubSeq(str, 1, Len(prefix)) = prefix

BcryptPrefix == <<"$", "2", "b", "$">>

\* bcrypt.hash(plain, 10): a string that begins "$2b$10$" and from which
\* compare recognises plain.
bcrypt_hash(plain) == BcryptPrefix \o <<"1", "0", "$">> \o plain

\* bcrypt.compare(plain, stored)
bcrypt_compare(plain, stored) == stored = bcrypt_hash(plain)

\* request.user when nothing has been attached
NoUser == [id |-> 0, email |-> "", role |-> "", isActive |-> FALSE,
           password |-> <<>>]

\* The stored password of the users that are there from the start.
SeedPassword == bcrypt_hash(<<"P", "a", "s", "s", "w", "0", "r", "d", "!">>)

\* User.hashPasswordBeforeInsert()
User_hashPasswordBeforeInsert(user) ==
  IF user.password # <<>>
  THEN [user EXCEPT !.password = bcrypt_hash(@)]
  ELSE user

\* User.hashPasswordBeforeUpdate()
User_hashPasswordBeforeUpdate(user) ==
  IF user.password # <<>> /\ ~StartsWith(user.password, BcryptPrefix)
  THEN [user EXCEPT !.password = bcrypt_hash(@)]
  ELSE user

\* User.validatePassword(plainPassword)
User_validatePassword(user, plainPassword) ==
  bcrypt_compare(plainPassword, user.password)

\* userRepository.findOne({ where: { id } })
findOneById(repo, id) == {u \in repo : u.id = id}

\* userRepository.findOne({ where: { email } })
findOneByEmail(repo, email) == {u \in repo : u.email = email}

\* ------------------------------------------------------------- credentials
\* The bearer credential of a request as the verify port sees it: a
\* verified token carries the JwtPayload, sub and the role written into it
\* when it was signed.
Credentials ==
  {[kind |-> k, sub |-> 0, role |-> ""] : k \in {"none", "invalid", "expired"}}
    \cup {[kind |-> "valid", sub |-> i, role |-> r] :
             i \in UserIds, r \in UserRole}

\* JwtStrategy.validate(payload)
JwtStrategy_validate_noActiveCheck(payload, repo) ==
  LET found == findOneById(repo, payload.sub) IN
  IF found = {} THEN [err |-> "Unauthenticated", user |-> NoUser]
  ELSE [err |-> "", user |-> CHOOSE u \in found : TRUE]

\* JwtStrategy.validate(payload) that takes the role from the payload.
JwtStrategy_validate_payloadRole(payload, repo) ==
  LET found == findOneById(repo, payload.sub) IN
  IF found = {} THEN [err |-> "Unauthenticated", user |-> NoUser]
  ELSE LET user == CHOOSE u \in found : TRUE IN
       IF ~user.isActive THEN [err |-> "Unauthenticated", user |-> NoUser]
       ELSE [err |-> "", user |-> [user EXCEPT !.role = payload.role]]

JwtStrategy_validate(payload, repo) ==
  LET found == findOneById(repo, payload.sub) IN
  IF found = {} THEN [err |-> "Unauthenticated", user |-> NoUser]
  ELSE LET user == CHOOSE u \in found : TRUE IN
       IF ~user.isActive THEN [err |-> "Unauthenticated", user |-> NoUser]
       ELSE [err |-> "", user |-> user]

\* passport-jwt behind super.canActivate: a missing, malformed or expired
\* token fails without an error object; a verified one goes to validate().
PassportJwt_authenticate(cred, repo) ==
  IF cred.kind = "valid" THEN JwtStrategy_validate(cred, repo)
  ELSE [err |-> "", user |-> NoUser]

\* JwtAuthGuard.handleRequest(err, user)
JwtAuthGuard_handleRequest(err, user) ==
  IF err # "" \/ user = NoUser
  THEN [allow |-> FALSE, user |-> NoUser, error |-> "Unauthenticated"]
  ELSE [allow |-> TRUE, user |-> user, error |-> ""]

\* JwtAuthGuard.canActivate(context)
JwtAuthGuard_canActivate_ignorePublic(handlerMeta, classMeta, cred, repo) ==
  LET r == PassportJwt_authenticate(cred, repo)
      h == JwtAuthGuard_handleRequest(r.err, r.user) IN
  [allow |-> h.allow, user |-> h.user, error |-> h.error,
   inspected |-> TRUE, isPublic |-> NoPublic]

JwtAuthGuard_canActivate(handlerMeta, classMeta, cred, repo) ==
  LET isPublic == getAllAndOverride(
                    <<handlerMeta.isPublic, classMeta.isPublic>>, NoPublic) IN
  IF isPublic.defined /\ isPublic.value
  THEN [allow |-> TRUE, user |-> NoUser, error |-> "",
        inspected |-> FALSE, isPublic |-> isPublic]
  ELSE LET r == PassportJwt_authenticate(cred, repo)
           h == JwtAuthGuard_handleRequest(r.err, r.user) IN
       [allow |-> h.allow, user |-> h.user, error |-> h.error,
        inspected |-> TRUE, isPublic |-> isPublic]

\* RolesGuard.canActivate(context)
RolesGuard_canActivate_noEmptyBranch(handlerMeta, classMeta, user) ==
  LET requiredRoles == getAllAndOverride(
                         <<handlerMeta.roles, classMeta.roles>>, NoRoles) IN
  [allow |-> IF ~requiredRoles.defined THEN TRUE
             ELSE IF user = NoUser \/ user.role = "" THEN FALSE
             ELSE Includes(requiredRoles.value, user.role),
   requiredRoles |-> requiredRoles]

RolesGuard_canActivate_allowAnonymous(handlerMeta, classMeta, user) ==
  LET requiredRoles == getAllAndOverride(
                         <<handlerMeta.roles, classMeta.roles>>, NoRoles) IN
  [allow |-> IF ~requiredRoles.defined \/ Len(requiredRoles.value) = 0
             THEN TRUE
             ELSE IF user = NoUser \/ user.role = "" THEN TRUE
             ELSE Includes(requiredRoles.value, user.role),
   requiredRoles |-> requiredRoles]

RolesGuard_canActivate(handlerMeta, classMeta, user) ==
  LET requiredRoles == getAllAndOverride(
                         <<handlerMeta.roles, classMeta.roles>>, NoRoles) IN
  [allow |-> IF ~requiredRoles.defined \/ Len(requiredRoles.value) = 0
             THEN TRUE
             ELSE IF user = NoUser \/ user.role = "" THEN FALSE
             ELSE Includes(requiredRoles.value, user.role),
   requiredRoles |-> requiredRoles]

\* Global guards in the order the APP_GUARD providers are listed.
APP_GUARDS_reversed == <<"RolesGuard", "JwtAuthGuard">>

APP_GUARDS == <<"JwtAuthGuard", "RolesGuard">>


\* A guard that returns false or throws ends the request; otherwise the next
\* guard runs, and after the last one the route handler.
AfterGuard_noShortCircuit(allow, idx) ==
  IF idx < Len(APP_GUARDS) THEN "guards" ELSE "handler"

AfterGuard(allow, idx) ==
  IF ~allow THEN "done"
  ELSE IF idx < Len(APP_GUARDS) THEN "guards" ELSE "handler"

\* ------------------------------------------------------------ route table
\* The route table with @Roles(ADMIN) left off DELETE /users/:id.
ROUTES_removeUnrestricted ==
  [r \in {"GET /", "GET /protected", "GET /admin",
          "POST /auth/register", "POST /auth/login",
          "GET /users/me", "GET /users", "GET /users/:id",
          "PATCH /users/:id", "DELETE /users/:id"} |->
     [handlerMeta |->
        CASE r \in {"GET /", "POST /auth/register", "POST /auth/login"}
               -> [isPublic |-> Public, roles |-> NoRoles]
          [] r \in {"GET /admin", "GET /users"}
               -> [isPublic |-> NoPublic, roles |-> Roles(<<"ADMIN">>)]
          [] OTHER -> NoMeta,
      classMeta |-> NoMeta]]

\* The routes the controllers declare, with their method-level and
\* class-level metadata (no controller carries class-level metadata).
ROUTES ==
  [r \in {"GET /", "GET /protected", "GET /admin",
          "POST /auth/register", "POST /auth/login",
          "GET /users/me", "GET /users", "GET /users/:id",
          "PATCH /users/:id", "DELETE /users/:id"} |->
     [handlerMeta |->
        CASE r \in {"GET /", "POST /auth/register", "POST /auth/login"}
               -> [isPublic |-> Public, roles |-> NoRoles]
          [] r \in {"GET /admin", "GET /users", "DELETE /users/:id"}
               -> [isPublic |-> NoPublic, roles |-> Roles(<<"ADMIN">>)]
          [] OTHER -> NoMeta,
      classMeta |-> NoMeta]]

\* Route declarations the guards can be given beyond those of ROUTES.
RoleLists == {<<>>, <<"ADMIN">>, <<"MEMBER">>, <<"ADMIN", "MANAGER">>}

MetaDecls ==
  [isPublic : {NoPublic, Public},
   roles : {NoRoles} \cup {Roles(l) : l \in RoleLists}]

\* ------------------------------------------------------------------ state
VARIABLES
  users,          \* the users table: a set of rows
  nextUserId,     \* the next primary key the table hands out
  tasks,          \* the tasks table: a set of rows
  req,            \* the request being served, with what the pipeline did to it
  lastTransition, \* the last transition(task, requested) call and its result
  comments,       \* the comments table: a set of rows
  nextCommentId,  \* the next primary key the comments table hands out
  lastComment,    \* the last operation on the comments table and its result
  clock,          \* the time new Date() and the date columns read
  txs             \* per worker, the service call it is in the middle of

vars == <<users, nextUserId, tasks, req, lastTransition,
          comments, nextCommentId, lastComment, clock, txs>>

\* Two requests can be served at a time: an await hands control to the
\* other one.
Workers == {"A", "B"}

\* A worker that is serving nothing.
NoTx == [pc |-> "idle", op |-> "", id |-> 0, row |-> NoUser, arg |-> "",
         result |-> "", found |-> ""]

NoTxs == [w \in Workers |-> NoTx]

\* A body carrying none of the fields.
NoDto == [email |-> "", role |-> "", isActive |-> "undefined",
          password |-> <<>>]

IdleReq ==
  [pc |-> "idle", route |-> "", handlerMeta |-> NoMeta, classMeta |-> NoMeta,
   cred |-> [kind |-> "none", sub |-> 0, role |-> ""], guardIdx |-> 1,
   user |-> NoUser,
   outcome |-> "", deniedBy |-> "", handlerInvoked |-> FALSE,
   credInspected |-> FALSE, guardsRun |-> <<>>, usersAtStart |-> {},
   isPublic |-> NoPublic, requiredRoles |-> NoRoles,
   targetId |-> 0, dto |-> NoDto, message |-> ""]

NoTransition == [called |-> FALSE, id |-> 0, from |-> "", requested |-> "",
                 result |-> "", after |-> ""]

NoComment == [op |-> "", result |-> "", id |-> 0, taskId |-> 0,
              parentId |-> 0, actor |-> 0, content |-> "", clear |-> FALSE]

Init ==
  /\ users = {}
  /\ nextUserId = 1
  /\ tasks = {}
  /\ req = IdleReq
  /\ lastTransition = NoTransition
  /\ comments = {}
  /\ nextCommentId = 1
  /\ lastComment = NoComment
  /\ clock = 1
  /\ txs = NoTxs

\* --------------------------------------------------------------- pipeline
NewRequest(route, handlerMeta, classMeta, cred) ==
  [IdleReq EXCEPT !.pc = "guards", !.route = route,
                  !.handlerMeta = handlerMeta, !.classMeta = classMeta,
                  !.cred = cred, !.usersAtStart = users]

\* A request arrives for one of the declared routes.
StartRequest ==
  /\ req.pc \in {"idle", "done"}
  /\ \E r \in DOMAIN ROUTES, cred \in Credentials :
       req' = NewRequest(r, ROUTES[r].handlerMeta, ROUTES[r].classMeta, cred)
  /\ UNCHANGED <<users, nextUserId, tasks, lastTransition,
               comments, nextCommentId, lastComment, clock, txs>>

JwtAuthGuardStep ==
  /\ req.pc = "guards"
  /\ APP_GUARDS[req.guardIdx] = "JwtAuthGuard"
  /\ LET r == JwtAuthGuard_canActivate(req.handlerMeta, req.classMeta,
                                       req.cred, users) IN
     req' = [req EXCEPT
               !.user = IF r.allow /\ r.inspected THEN r.user ELSE @,
               !.credInspected = r.inspected,
               !.isPublic = r.isPublic,
               !.guardsRun = Append(@, "JwtAuthGuard"),
               !.outcome = IF r.allow THEN @ ELSE r.error,
               !.deniedBy = IF r.allow THEN @ ELSE "JwtAuthGuard",
               !.pc = AfterGuard(r.allow, req.guardIdx),
               !.guardIdx = @ + 1]
  /\ UNCHANGED <<users, nextUserId, tasks, lastTransition,
               comments, nextCommentId, lastComment, clock, txs>>

RolesGuardStep ==
  /\ req.pc = "guards"
  /\ APP_GUARDS[req.guardIdx] = "RolesGuard"
  /\ LET r == RolesGuard_canActivate(req.handlerMeta, req.classMeta,
                                     req.user) IN
     req' = [req EXCEPT
               !.requiredRoles = r.requiredRoles,
               !.guardsRun = Append(@, "RolesGuard"),
               !.outcome = IF r.allow THEN @ ELSE "Forbidden",
               !.deniedBy = IF r.allow THEN @ ELSE "RolesGuard",
               !.pc = AfterGuard(r.allow, req.guardIdx),
               !.guardIdx = @ + 1]
  /\ UNCHANGED <<users, nextUserId, tasks, lastTransition,
               comments, nextCommentId, lastComment, clock, txs>>

Finish(outcome) ==
  [req EXCEPT !.pc = "done", !.handlerInvoked = TRUE, !.outcome = outcome]


\* ---------------------------------------------------------------- services
\* Deleting a users row with both relations ON DELETE CASCADE.
CascadeUserRemoval_cascadeAssignee(taskRows, id) ==
  {t \in taskRows : t.creatorId # id /\ t.assigneeId # id}

\* Deleting a users row with both relations ON DELETE SET NULL.
CascadeUserRemoval_orphan(taskRows, id) ==
  {[t EXCEPT !.assigneeId = IF @ = id THEN 0 ELSE @,
             !.creatorId = IF @ = id THEN 0 ELSE @] : t \in taskRows}

\* Deleting a users row: the creator relation is ON DELETE CASCADE, the
\* assignee relation ON DELETE SET NULL (0 stands for NULL).
CascadeUserRemoval(taskRows, id) ==
  {[t EXCEPT !.assigneeId = IF @ = id THEN 0 ELSE @] :
     t \in {x \in taskRows : x.creatorId # id}}

\* The comments that go when the rows named by ids go: the parent relation
\* is ON DELETE CASCADE, so every reply below a removed comment goes too.
RECURSIVE Descendants(_, _)
Descendants(rows, ids) ==
  LET more == {c.id : c \in {x \in rows : x.parentId \in ids}} IN
  IF more \subseteq ids THEN ids ELSE Descendants(rows, ids \cup more)

\* Removal of comments rows that leaves their replies in place.
CascadeCommentRemoval_repliesStay(rows, ids) ==
  {c \in rows : c.id \notin ids}

\* Removal of comments rows, with the cascade over parentId.
CascadeCommentRemoval(rows, ids) ==
  {c \in rows : c.id \notin Descendants(rows, ids)}

\* Deleting a tasks row: comments.taskId is ON DELETE CASCADE.
CascadeTaskRemoval(rows, taskIds) ==
  CascadeCommentRemoval(rows, {c.id : c \in {x \in rows : x.taskId \in taskIds}})

\* Deleting a users row: comments.userId is ON DELETE CASCADE, and the tasks
\* the user created go with their comments.
CascadeUserRemovalOnComments(rows, taskRows, id) ==
  CascadeTaskRemoval(
    CascadeCommentRemoval(rows, {c.id : c \in {x \in rows : x.userId = id}}),
    {t.id : t \in {x \in taskRows : x.creatorId = id}})

\* The body of PATCH /users/:id as the ValidationPipe hands it over; "" and
\* "undefined" stand for a field the body does not carry.
UpdateUserDtos ==
  [email : Emails \cup {""},
   role : UserRole \cup {""},
   isActive : {"undefined", "true", "false"},
   password : Passwords \cup {<<>>}]

\* The update bodies given to the service when it is called directly: the
\* account status and the password in every combination.
ServiceUpdateDtos == {dto \in UpdateUserDtos : dto.email = "" /\ dto.role = ""}

\* The update bodies sent through the request pipeline.
RequestUpdateDtos == {dto \in UpdateUserDtos : dto.password = <<>>}

\* Object.assign(user, updateUserDto)
ObjectAssign(user, dto) ==
  [user EXCEPT
     !.email = IF dto.email # "" THEN dto.email ELSE @,
     !.role = IF dto.role # "" THEN dto.role ELSE @,
     !.isActive = IF dto.isActive = "undefined" THEN @
                  ELSE dto.isActive = "true",
     !.password = IF dto.password # <<>> THEN dto.password ELSE @]

\* UsersService.findOne(id)
UsersService_findOne(repo, id) ==
  IF findOneById(repo, id) = {} THEN "NotFound" ELSE "ok"

\* UsersService.update without the ownership check
UsersService_update_noOwnership(repo, id, dto, currentUser) ==
  IF findOneById(repo, id) = {} THEN [outcome |-> "NotFound", users |-> repo]
  ELSE
    LET user == CHOOSE u \in findOneById(repo, id) : TRUE
        isOwnProfile == currentUser.id = id
        isAdmin == currentUser.role = "ADMIN"
    IN
    IF FALSE
    THEN [outcome |-> "Forbidden", users |-> repo]
    ELSE IF ~isAdmin /\ (dto.role # "" \/ dto.isActive # "undefined")
    THEN [outcome |-> "Forbidden", users |-> repo]
    ELSE IF /\ dto.email # ""
            /\ dto.email # user.email
            /\ findOneByEmail(repo, dto.email) # {}
    THEN [outcome |-> "Conflict", users |-> repo]
    ELSE [outcome |-> "ok",
          users |-> (repo \ {user})
                      \cup {User_hashPasswordBeforeUpdate(
                              ObjectAssign(user, dto))}]

\* UsersService.update testing updateUserDto.isActive for truthiness
UsersService_update_truthyIsActive(repo, id, dto, currentUser) ==
  IF findOneById(repo, id) = {} THEN [outcome |-> "NotFound", users |-> repo]
  ELSE
    LET user == CHOOSE u \in findOneById(repo, id) : TRUE
        isOwnProfile == currentUser.id = id
        isAdmin == currentUser.role = "ADMIN"
    IN
    IF ~isOwnProfile /\ ~isAdmin
    THEN [outcome |-> "Forbidden", users |-> repo]
    ELSE IF ~isAdmin /\ (dto.role # "" \/ dto.isActive = "true")
    THEN [outcome |-> "Forbidden", users |-> repo]
    ELSE IF /\ dto.email # ""
            /\ dto.email # user.email
            /\ findOneByEmail(repo, dto.email) # {}
    THEN [outcome |-> "Conflict", users |-> repo]
    ELSE [outcome |-> "ok",
          users |-> (repo \ {user})
                      \cup {User_hashPasswordBeforeUpdate(
                              ObjectAssign(user, dto))}]

\* UsersService.update that lets the owner submit role and isActive.
UsersService_update_ownerUnrestricted(repo, id, dto, currentUser) ==
  IF findOneById(repo, id) = {} THEN [outcome |-> "NotFound", users |-> repo]
  ELSE
    LET user == CHOOSE u \in findOneById(repo, id) : TRUE
        isOwnProfile == currentUser.id = id
        isAdmin == currentUser.role = "ADMIN"
    IN
    IF ~isOwnProfile /\ ~isAdmin
    THEN [outcome |-> "Forbidden", users |-> repo]
    ELSE IF ~isAdmin /\ ~isOwnProfile /\ (dto.role # "" \/ dto.isActive # "undefined")
    THEN [outcome |-> "Forbidden", users |-> repo]
    ELSE IF /\ dto.email # ""
            /\ dto.email # user.email
            /\ findOneByEmail(repo, dto.email) # {}
    THEN [outcome |-> "Conflict", users |-> repo]
    ELSE [outcome |-> "ok",
          users |-> (repo \ {user})
                      \cup {User_hashPasswordBeforeUpdate(
                              ObjectAssign(user, dto))}]

\* UsersService.update(id, updateUserDto, currentUser)
UsersService_update(repo, id, dto, currentUser) ==
  IF findOneById(repo, id) = {} THEN [outcome |-> "NotFound", users |-> repo]
  ELSE
    LET user == CHOOSE u \in findOneById(repo, id) : TRUE
        isOwnProfile == currentUser.id = id
        isAdmin == currentUser.role = "ADMIN"
    IN
    IF ~isOwnProfile /\ ~isAdmin
    THEN [outcome |-> "Forbidden", users |-> repo]
    ELSE IF ~isAdmin /\ (dto.role # "" \/ dto.isActive # "undefined")
    THEN [outcome |-> "Forbidden", users |-> repo]
    ELSE IF /\ dto.email # ""
            /\ dto.email # user.email
            /\ findOneByEmail(repo, dto.email) # {}
    THEN [outcome |-> "Conflict", users |-> repo]
    ELSE [outcome |-> "ok",
          users |-> (repo \ {user})
                      \cup {User_hashPasswordBeforeUpdate(
                              ObjectAssign(user, dto))}]

\* UsersService.remove(id, currentUser) that looks the target up first.
UsersService_remove_lookupFirst(repo, taskRows, id, currentUser) ==
  IF findOneById(repo, id) = {}
  THEN [outcome |-> "NotFound", users |-> repo, tasks |-> taskRows]
  ELSE IF currentUser.role # "ADMIN"
  THEN [outcome |-> "Forbidden", users |-> repo, tasks |-> taskRows]
  ELSE IF currentUser.id = id
  THEN [outcome |-> "Forbidden", users |-> repo, tasks |-> taskRows]
  ELSE [outcome |-> "ok",
        users |-> repo \ findOneById(repo, id),
        tasks |-> CascadeUserRemoval(taskRows, id)]

\* UsersService.remove(id, currentUser)
UsersService_remove(repo, taskRows, id, currentUser) ==
  IF currentUser.role # "ADMIN"
  THEN [outcome |-> "Forbidden", users |-> repo, tasks |-> taskRows]
  ELSE IF currentUser.id = id
  THEN [outcome |-> "Forbidden", users |-> repo, tasks |-> taskRows]
  ELSE IF findOneById(repo, id) = {}
  THEN [outcome |-> "NotFound", users |-> repo, tasks |-> taskRows]
  ELSE [outcome |-> "ok",
        users |-> repo \ findOneById(repo, id),
        tasks |-> CascadeUserRemoval(taskRows, id)]

\* AuthService.register that saves without looking the email up.
AuthService_register_noLookup(repo, newId, email, password, role) ==
  IF FALSE
  THEN [outcome |-> "Conflict", users |-> repo]
  ELSE [outcome |-> "ok",
        users |-> repo \cup {User_hashPasswordBeforeInsert(
                                [id |-> newId, email |-> email,
                                 role |-> role, isActive |-> TRUE,
                                 password |-> password])}]

\* AuthService.register(registerDto); isActive takes the column default.
AuthService_register(repo, newId, email, password, role) ==
  IF findOneByEmail(repo, email) # {}
  THEN [outcome |-> "Conflict", users |-> repo]
  ELSE [outcome |-> "ok",
        users |-> repo \cup {User_hashPasswordBeforeInsert(
                                [id |-> newId, email |-> email,
                                 role |-> role, isActive |-> TRUE,
                                 password |-> password])}]

\* AuthService.login(loginDto) that looks at isActive before the password.
AuthService_login_activeFirst(repo, email, password) ==
  IF findOneByEmail(repo, email) = {}
  THEN [outcome |-> "Unauthenticated", message |-> "Invalid credentials"]
  ELSE LET user == CHOOSE u \in findOneByEmail(repo, email) : TRUE IN
       IF ~user.isActive
       THEN [outcome |-> "Unauthenticated",
             message |-> "Account is deactivated"]
       ELSE IF ~User_validatePassword(user, password)
       THEN [outcome |-> "Unauthenticated", message |-> "Invalid credentials"]
       ELSE [outcome |-> "ok", message |-> ""]

\* AuthService.login(loginDto)
AuthService_login(repo, email, password) ==
  IF findOneByEmail(repo, email) = {}
  THEN [outcome |-> "Unauthenticated", message |-> "Invalid credentials"]
  ELSE LET user == CHOOSE u \in findOneByEmail(repo, email) : TRUE IN
       IF ~User_validatePassword(user, password)
       THEN [outcome |-> "Unauthenticated", message |-> "Invalid credentials"]
       ELSE IF ~user.isActive
       THEN [outcome |-> "Unauthenticated",
             message |-> "Account is deactivated"]
       ELSE [outcome |-> "ok", message |-> ""]

\* ----------------------------------------------------------- route handlers
AtHandler(routes) == req.pc = "handler" /\ req.route \in routes

\* AppController: getHello, getProtected, getAdminOnly
AppControllerHandler ==
  /\ AtHandler({"GET /", "GET /protected", "GET /admin"})
  /\ req' = Finish("ok")
  /\ UNCHANGED <<users, nextUserId, tasks, lastTransition,
               comments, nextCommentId, lastComment, clock, txs>>

\* AuthController.register
RegisterHandler ==
  /\ AtHandler({"POST /auth/register"})
  /\ \E email \in Emails, role \in UserRole, password \in RequestPasswords :
       LET r == AuthService_register(users, nextUserId, email, password,
                                     role) IN
       /\ r.outcome = "ok" => nextUserId <= MaxUsers
       /\ users' = r.users
       /\ nextUserId' = IF r.outcome = "ok" THEN nextUserId + 1 ELSE nextUserId
       /\ req' = [Finish(r.outcome) EXCEPT
                    !.dto = [NoDto EXCEPT !.email = email, !.role = role,
                                          !.password = password]]
  /\ UNCHANGED <<tasks, lastTransition,
               comments, nextCommentId, lastComment, clock, txs>>

\* AuthController.login
LoginHandler ==
  /\ AtHandler({"POST /auth/login"})
  /\ \E email \in Emails, password \in Passwords :
       LET r == AuthService_login(users, email, password) IN
       req' = [Finish(r.outcome) EXCEPT
                 !.message = r.message,
                 !.dto = [NoDto EXCEPT !.email = email,
                                       !.password = password]]
  /\ UNCHANGED <<users, nextUserId, tasks, lastTransition,
               comments, nextCommentId, lastComment, clock, txs>>

\* UsersController.getProfile and UsersController.findAll
UsersReadHandler ==
  /\ AtHandler({"GET /users/me", "GET /users"})
  /\ req' = Finish("ok")
  /\ UNCHANGED <<users, nextUserId, tasks, lastTransition,
               comments, nextCommentId, lastComment, clock, txs>>

\* UsersController.findOne
FindOneHandler ==
  /\ AtHandler({"GET /users/:id"})
  /\ \E id \in UserIds :
       req' = [Finish(UsersService_findOne(users, id)) EXCEPT !.targetId = id]
  /\ UNCHANGED <<users, nextUserId, tasks, lastTransition,
               comments, nextCommentId, lastComment, clock, txs>>

\* UsersController.update
UpdateHandler ==
  /\ AtHandler({"PATCH /users/:id"})
  /\ \E id \in UserIds, dto \in RequestUpdateDtos :
       LET r == UsersService_update(users, id, dto, req.user) IN
       /\ users' = r.users
       /\ req' = [Finish(r.outcome) EXCEPT !.targetId = id, !.dto = dto]
  /\ UNCHANGED <<nextUserId, tasks, lastTransition,
               comments, nextCommentId, lastComment, clock, txs>>

\* UsersController.remove
RemoveHandler ==
  /\ AtHandler({"DELETE /users/:id"})
  /\ \E id \in UserIds :
       LET r == UsersService_remove(users, tasks, id, req.user) IN
       /\ users' = r.users
       /\ tasks' = r.tasks
       /\ comments' = IF r.outcome = "ok"
                      THEN CascadeUserRemovalOnComments(comments, tasks, id)
                      ELSE comments
       /\ req' = [Finish(r.outcome) EXCEPT !.targetId = id]
  /\ UNCHANGED <<nextUserId, lastTransition,
               nextCommentId, lastComment, clock, txs>>

Next ==
  \/ StartRequest
  \/ JwtAuthGuardStep
  \/ RolesGuardStep
  \/ AppControllerHandler
  \/ RegisterHandler
  \/ LoginHandler
  \/ UsersReadHandler
  \/ FindOneHandler
  \/ UpdateHandler
  \/ RemoveHandler

Spec == Init /\ [][Next]_vars

\* ---------------------------------------------------------------------------
\* The account services called directly, by any stored principal and with
\* every body the DTO validation lets through.
\* ---------------------------------------------------------------------------

\* The record of a service call: what was called, by whom, with what, on
\* which table, and what came back.
ServiceCall(op, currentUser, id, dto, outcome, message) ==
  [IdleReq EXCEPT !.pc = "done", !.route = op, !.handlerInvoked = TRUE,
                  !.user = currentUser, !.targetId = id, !.dto = dto,
                  !.outcome = outcome, !.message = message,
                  !.usersAtStart = users]

\* AuthService.register(registerDto)
RegisterCall ==
  /\ \E email \in Emails, role \in UserRole, password \in Passwords :
       LET r == AuthService_register(users, nextUserId, email, password,
                                     role) IN
       /\ r.outcome = "ok" => nextUserId <= MaxUsers
       /\ users' = r.users
       /\ nextUserId' = IF r.outcome = "ok" THEN nextUserId + 1 ELSE nextUserId
       /\ req' = ServiceCall("AuthService.register", NoUser, 0,
                             [NoDto EXCEPT !.email = email, !.role = role,
                                           !.password = password],
                             r.outcome, "")
  /\ UNCHANGED <<tasks, lastTransition,
               comments, nextCommentId, lastComment, clock, txs>>

\* AuthService.login(loginDto)
LoginCall ==
  /\ \E email \in Emails, password \in Passwords :
       LET r == AuthService_login(users, email, password) IN
       req' = ServiceCall("AuthService.login", NoUser, 0,
                          [NoDto EXCEPT !.email = email,
                                        !.password = password],
                          r.outcome, r.message)
  /\ UNCHANGED <<users, nextUserId, tasks, lastTransition,
               comments, nextCommentId, lastComment, clock, txs>>

\* UsersService.update(id, updateUserDto, currentUser)
UpdateCall ==
  /\ \E currentUser \in users, id \in UserIds, dto \in ServiceUpdateDtos :
       LET r == UsersService_update(users, id, dto, currentUser) IN
       /\ users' = r.users
       /\ req' = ServiceCall("UsersService.update", currentUser, id, dto,
                             r.outcome, "")
  /\ UNCHANGED <<nextUserId, tasks, lastTransition,
               comments, nextCommentId, lastComment, clock, txs>>

\* UsersService.remove(id, currentUser)
RemoveCall ==
  /\ \E currentUser \in users, id \in UserIds :
       LET r == UsersService_remove(users, tasks, id, currentUser) IN
       /\ users' = r.users
       /\ tasks' = r.tasks
       /\ comments' = IF r.outcome = "ok"
                      THEN CascadeUserRemovalOnComments(comments, tasks, id)
                      ELSE comments
       /\ req' = ServiceCall("UsersService.remove", currentUser, id, NoDto,
                             r.outcome, "")
  /\ UNCHANGED <<nextUserId, lastTransition,
               nextCommentId, lastComment, clock, txs>>

NextService == RegisterCall \/ LoginCall \/ UpdateCall \/ RemoveCall

SpecService == Init /\ [][NextService]_vars

\* ---------------------------------------------------------------------------
\* Two account requests at a time: each runs its checks and its findOne by
\* email, and saves after an await.
\* ---------------------------------------------------------------------------

\* The exceptions that are HttpException: the ones the services throw.
HttpExceptions == {"Conflict", "Forbidden", "NotFound", "Unauthenticated"}

\* @Catch(HttpException) HttpExceptionFilter, the only filter registered: an
\* HttpException is answered under its own kind, anything else falls to the
\* framework's handler and is answered 500 Internal server error.
HttpExceptionFilter_catch(exception) ==
  IF exception \in HttpExceptions THEN exception ELSE "InternalServerError"

\* userRepository.save(user) against users.email UNIQUE: an INSERT or UPDATE
\* that would give two rows one email fails with QueryFailedError and
\* writes nothing.
userRepository_save(repo, user) ==
  IF \E u \in repo : u.email = user.email /\ u.id # user.id
  THEN [error |-> "QueryFailedError", users |-> repo]
  ELSE [error |-> "", users |-> {u \in repo : u.id # user.id} \cup {user}]

\* AuthService.register up to its save: the findOne by email, and the entity
\* userRepository.create builds.
RegisterLookup(w) ==
  /\ txs[w].pc \in {"idle", "done"}
  /\ \E email \in Emails, role \in UserRole, password \in RequestPasswords :
       LET r == AuthService_register(users, 0, email, password, role) IN
       txs' = [txs EXCEPT ![w] =
                 IF r.outcome = "ok"
                 THEN [NoTx EXCEPT !.pc = "read", !.op = "register",
                                   !.arg = email,
                                   !.row = CHOOSE u \in r.users \ users : TRUE]
                 ELSE [NoTx EXCEPT !.pc = "done", !.op = "register",
                                   !.arg = email, !.result = r.outcome]]
  /\ UNCHANGED <<users, nextUserId, tasks, req, lastTransition,
                 comments, nextCommentId, lastComment, clock>>

\* AuthService.register: await this.userRepository.save(user); nothing
\* catches what save throws.
RegisterSave(w) ==
  /\ txs[w].pc = "read" /\ txs[w].op = "register"
  /\ nextUserId <= MaxUsers
  /\ LET s == userRepository_save(users,
                                  [txs[w].row EXCEPT !.id = nextUserId])
     IN
     /\ users' = s.users
     /\ nextUserId' = IF s.error = "" THEN nextUserId + 1 ELSE nextUserId
     /\ txs' = [txs EXCEPT
                  ![w].pc = "done",
                  ![w].id = IF s.error = "" THEN nextUserId ELSE 0,
                  ![w].result = IF s.error = "" THEN "ok"
                                ELSE HttpExceptionFilter_catch(s.error)]
  /\ UNCHANGED <<tasks, req, lastTransition,
                 comments, nextCommentId, lastComment, clock>>

\* UsersService.update up to its save, called by the owner of the row with
\* a new email: findOne, the permission checks, the findOne by email, and
\* Object.assign.
UpdateLookup(w) ==
  /\ txs[w].pc \in {"idle", "done"}
  /\ \E currentUser \in users, email \in Emails :
       LET dto == [NoDto EXCEPT !.email = email]
           r == UsersService_update(users, currentUser.id, dto, currentUser)
       IN
       txs' = [txs EXCEPT ![w] =
                 IF r.outcome = "ok"
                 THEN [NoTx EXCEPT !.pc = "read", !.op = "update",
                                   !.id = currentUser.id, !.arg = email,
                                   !.row = CHOOSE u \in r.users :
                                             u.id = currentUser.id]
                 ELSE [NoTx EXCEPT !.pc = "done", !.op = "update",
                                   !.id = currentUser.id, !.arg = email,
                                   !.result = r.outcome]]
  /\ UNCHANGED <<users, nextUserId, tasks, req, lastTransition,
                 comments, nextCommentId, lastComment, clock>>

\* UsersService.update: return this.userRepository.save(user); nothing
\* catches what save throws.
UpdateSave(w) ==
  /\ txs[w].pc = "read" /\ txs[w].op = "update"
  /\ LET s == userRepository_save(users, txs[w].row) IN
     /\ users' = s.users
     /\ txs' = [txs EXCEPT
                  ![w].pc = "done",
                  ![w].result = IF s.error = "" THEN "ok"
                                ELSE HttpExceptionFilter_catch(s.error)]
  /\ UNCHANGED <<nextUserId, tasks, req, lastTransition,
                 comments, nextCommentId, lastComment, clock>>

NextAccountRace ==
  \E w \in Workers :
    RegisterLookup(w) \/ RegisterSave(w) \/ UpdateLookup(w) \/ UpdateSave(w)

SpecAccountRace == Init /\ [][NextAccountRace]_vars


\* ------------------------------------------- guards over any declaration
\* The guards are route-agnostic: here they serve routes carrying any
\* combination of method-level and class-level @Public() / @Roles(), for a
\* users table holding one row of any role and status, or none.
InitPolicy ==
  /\ \E role \in UserRole, isActive \in BOOLEAN, present \in BOOLEAN :
       users = IF present
               THEN {[id |-> 1, email |-> "a@x.io", role |-> role,
                      isActive |-> isActive, password |-> SeedPassword]}
               ELSE {}
  /\ nextUserId = 2
  /\ tasks = {}
  /\ req = IdleReq
  /\ lastTransition = NoTransition
  /\ comments = {}
  /\ nextCommentId = 1
  /\ lastComment = NoComment
  /\ clock = 1
  /\ txs = NoTxs

StartProbe ==
  /\ req.pc \in {"idle", "done"}
  /\ \E hm \in MetaDecls, cm \in MetaDecls, cred \in Credentials :
       req' = NewRequest("probe", hm, cm, cred)
  /\ UNCHANGED <<users, nextUserId, tasks, lastTransition,
               comments, nextCommentId, lastComment, clock, txs>>

ProbeHandler ==
  /\ AtHandler({"probe"})
  /\ req' = Finish("ok")
  /\ UNCHANGED <<users, nextUserId, tasks, lastTransition,
               comments, nextCommentId, lastComment, clock, txs>>

NextPolicy ==
  \/ StartProbe
  \/ JwtAuthGuardStep
  \/ RolesGuardStep
  \/ ProbeHandler

SpecPolicy == InitPolicy /\ [][NextPolicy]_vars

\* ------------------------------------------------ RolesGuard on its own
\* RolesGuard.canActivate called with any request.user a caller can pass.
Principals ==
  [id : UserIds, email : {"a@x.io"}, role : UserRole, isActive : BOOLEAN,
   password : {SeedPassword}]

RoleDecls == {m \in MetaDecls : m.isPublic = NoPublic}

RolesGuardCall ==
  \E user \in Principals \cup {NoUser}, hm \in RoleDecls, cm \in RoleDecls :
    LET r == RolesGuard_canActivate(hm, cm, user) IN
    /\ req' = [IdleReq EXCEPT
                 !.pc = "done", !.route = "probe",
                 !.handlerMeta = hm, !.classMeta = cm, !.user = user,
                 !.requiredRoles = r.requiredRoles,
                 !.guardsRun = <<"RolesGuard">>,
                 !.outcome = IF r.allow THEN "ok" ELSE "Forbidden",
                 !.deniedBy = IF r.allow THEN "" ELSE "RolesGuard"]
    /\ UNCHANGED <<users, nextUserId, tasks, lastTransition,
               comments, nextCommentId, lastComment, clock, txs>>

NextGuard == RolesGuardCall

SpecGuard == Init /\ [][NextGuard]_vars

\* ----------------------------------------------------------- task workflow
\* Users present when tasks are worked on.
SeedEmail == <<"a@x.io", "b@x.io">>

SeedUsers ==
  {[id |-> i, email |-> SeedEmail[i], role |-> "MEMBER", isActive |-> TRUE,
    password |-> SeedPassword] :
     i \in UserIds \cap (1..Len(SeedEmail))}

InitTask ==
  /\ users = SeedUsers
  /\ nextUserId = Cardinality(SeedUsers) + 1
  /\ tasks = {}
  /\ req = IdleReq
  /\ lastTransition = NoTransition
  /\ comments = {}
  /\ nextCommentId = 1
  /\ lastComment = NoComment
  /\ clock = 1
  /\ txs = NoTxs

\* What a task is created with: the column defaults (dueDate is nullable, 0
\* stands for NULL), or a title, priority and due date of the creator's.
CreateTaskDtos ==
  {[title |-> "t1", priority |-> "MEDIUM", dueDate |-> 0],
   [title |-> "t2", priority |-> "URGENT", dueDate |-> 1]}

\* A new tasks row: status takes the column default, assigneeId and dueDate
\* are nullable, @CreateDateColumn and @UpdateDateColumn take the time of
\* the insert.
NewTask(id, title, priority, dueDate, creatorId, assigneeId, now) ==
  [id |-> id, title |-> title, status |-> "TODO", priority |-> priority,
   dueDate |-> dueDate, createdAt |-> now, updatedAt |-> now,
   creatorId |-> creatorId, assigneeId |-> assigneeId]

\* @UpdateDateColumn: a saved row takes the time of the save.
UpdateDateColumn(row) == [row EXCEPT !.updatedAt = clock]

\* Time passes.
Tick ==
  /\ clock < MaxClock
  /\ clock' = clock + 1
  /\ UNCHANGED <<users, nextUserId, tasks, req, lastTransition,
                 comments, nextCommentId, lastComment, txs>>

CreateTask ==
  /\ \E id \in TaskIds, creator \in users, assignee \in users \cup {NoUser},
        dto \in CreateTaskDtos :
       /\ \A t \in tasks : t.id < id
       /\ \A j \in TaskIds : j < id => \E t \in tasks : t.id = j
       /\ tasks' = tasks \cup {NewTask(id, dto.title, dto.priority,
                                       dto.dueDate, creator.id, assignee.id,
                                       clock)}
  /\ UNCHANGED <<users, nextUserId, req, lastTransition,
               comments, nextCommentId, lastComment, clock, txs>>

\* transition(task, requested) that moves a refused request to the first
\* status the table allows.
transition_nearestValid(task, requested) ==
  IF Includes(STATUS_TRANSITIONS[task.status], requested)
  THEN [result |-> "ok",
        task |-> UpdateDateColumn([task EXCEPT !.status = requested])]
  ELSE [result |-> "InvalidTransition",
        task |-> IF STATUS_TRANSITIONS[task.status] = <<>> THEN task
                 ELSE [task EXCEPT !.status = STATUS_TRANSITIONS[@][1]]]

\* transition(task, requested)
transition(task, requested) ==
  IF Includes(STATUS_TRANSITIONS[task.status], requested)
  THEN [result |-> "ok",
        task |-> UpdateDateColumn([task EXCEPT !.status = requested])]
  ELSE [result |-> "InvalidTransition", task |-> task]

TransitionTask ==
  /\ \E task \in tasks, requested \in TaskStatus :
       LET r == transition(task, requested) IN
       /\ tasks' = (tasks \ {task}) \cup {r.task}
       /\ lastTransition' = [called |-> TRUE, id |-> task.id,
                             from |-> task.status,
                             requested |-> requested, result |-> r.result,
                             after |-> r.task.status]
  /\ UNCHANGED <<users, nextUserId, req,
               comments, nextCommentId, lastComment, clock, txs>>

\* userRepository.remove(user) with what the foreign keys do to the tasks
\* and comments tables.
RemoveUserRow ==
  /\ \E u \in users :
       /\ users' = users \ {u}
       /\ tasks' = CascadeUserRemoval(tasks, u.id)
       /\ comments' = CascadeUserRemovalOnComments(comments, tasks, u.id)
  /\ lastComment' = [NoComment EXCEPT !.op = "removeUser"]
  /\ UNCHANGED <<nextUserId, req, lastTransition, nextCommentId, clock, txs>>

NextTask ==
  \/ CreateTask
  \/ TransitionTask
  \/ RemoveUserRow
  \/ Tick

SpecTask == InitTask /\ [][NextTask]_vars

\* ---------------------------------------------------------------------------
\* Two transition requests at a time: each loads the task, checks the
\* requested status against the status it loaded, and saves.
\* ---------------------------------------------------------------------------

\* The tasks that are there when the requests arrive.
RaceTasks == {NewTask(i, "t1", "MEDIUM", 0, 1, 0, 1) : i \in TaskIds}

InitTaskRace ==
  /\ users = SeedUsers
  /\ nextUserId = Cardinality(SeedUsers) + 1
  /\ tasks = RaceTasks
  /\ req = IdleReq
  /\ lastTransition = NoTransition
  /\ comments = {}
  /\ nextCommentId = 1
  /\ lastComment = NoComment
  /\ clock = 1
  /\ txs = NoTxs

\* Repository.save of a loaded task that writes only if the stored row is
\* still the one that was loaded.
Task_save_versioned(rows, loaded, row) ==
  IF loaded \in rows THEN (rows \ {loaded}) \cup {row} ELSE rows

\* Repository.save of a loaded task: the row with its primary key is
\* overwritten; Task has no @VersionColumn, so what was loaded is not
\* compared with what is stored.
Task_save(rows, loaded, row) ==
  {t \in rows : t.id # row.id} \cup {row}

\* A request loads the task it is to move.
TransitionRead(w) ==
  /\ txs[w].pc \in {"idle", "done"}
  /\ \E task \in tasks, requested \in TaskStatus :
       txs' = [txs EXCEPT ![w] = [NoTx EXCEPT !.pc = "read",
                                              !.op = "transition",
                                              !.id = task.id, !.row = task,
                                              !.arg = requested]]
  /\ UNCHANGED <<users, nextUserId, tasks, req, lastTransition,
                 comments, nextCommentId, lastComment, clock>>

\* The request checks the table against what it loaded and saves.
TransitionWrite(w) ==
  /\ txs[w].pc = "read"
  /\ LET r == transition(txs[w].row, txs[w].arg)
         stored == {t \in tasks : t.id = txs[w].id}
     IN
     /\ tasks' = IF r.result = "ok"
                 THEN Task_save(tasks, txs[w].row, r.task)
                 ELSE tasks
     /\ txs' = [txs EXCEPT ![w].pc = "done", ![w].result = r.result,
                           ![w].found = (CHOOSE t \in stored : TRUE).status]
  /\ UNCHANGED <<users, nextUserId, req, lastTransition,
                 comments, nextCommentId, lastComment, clock>>

NextTaskRace ==
  \E w \in Workers : TransitionRead(w) \/ TransitionWrite(w)

SpecTaskRace == InitTaskRace /\ [][NextTaskRace]_vars


\* --------------------------------------------------------- comment threads
CommentIds == 1..MaxComments

\* What a comment can be given as its content.
Contents == {"first", "second"}

\* The content softDelete leaves behind.
Placeholder == "[deleted]"

\* Users and tasks present when comments are worked on.
SeedCommentUsers ==
  {[id |-> 1, email |-> "a@x.io", role |-> "MEMBER", isActive |-> TRUE,
    password |-> SeedPassword],
   [id |-> 2, email |-> "b@x.io", role |-> "ADMIN", isActive |-> TRUE,
    password |-> SeedPassword]}

SeedTasks ==
  {NewTask(1, "t1", "MEDIUM", 0, 1, 0, 1),
   NewTask(2, "t1", "MEDIUM", 0, 2, 1, 1)}

InitComment ==
  /\ users = SeedCommentUsers
  /\ nextUserId = Cardinality(SeedCommentUsers) + 1
  /\ tasks = SeedTasks
  /\ req = IdleReq
  /\ lastTransition = NoTransition
  /\ comments = {}
  /\ nextCommentId = 1
  /\ lastComment = NoComment
  /\ clock = 1
  /\ txs = NoTxs

\* A new comments row: isEdited and isDeleted take the column defaults,
\* deletedAt and parentId are nullable (0 stands for NULL).
NewComment(id, taskId, userId, content, parentId) ==
  [id |-> id, content |-> content, isEdited |-> FALSE, isDeleted |-> FALSE,
   deletedAt |-> 0, taskId |-> taskId, userId |-> userId,
   parentId |-> parentId]

\* Comment.markAsEdited() that leaves the flag as it is.
Comment_markAsEdited_keepFlag(comment) == comment

\* Comment.markAsEdited()
Comment_markAsEdited(comment) == [comment EXCEPT !.isEdited = TRUE]

\* Comment.softDelete(clearContent) that never replaces the content.
Comment_softDelete_keepContent(comment, clearContent) ==
  [comment EXCEPT !.isDeleted = TRUE, !.deletedAt = clock]

\* Comment.softDelete(clearContent) that replaces the content whatever
\* clearContent is.
Comment_softDelete_alwaysClear(comment, clearContent) ==
  [comment EXCEPT !.isDeleted = TRUE, !.deletedAt = clock,
                  !.content = Placeholder]

\* Comment.softDelete(clearContent)
Comment_softDelete(comment, clearContent) ==
  [comment EXCEPT !.isDeleted = TRUE, !.deletedAt = clock,
                  !.content = IF clearContent THEN Placeholder ELSE @]

\* Comment.restore() that leaves deletedAt as it is.
Comment_restore_keepTimestamp(comment) ==
  [comment EXCEPT !.isDeleted = FALSE]

\* Comment.restore()
Comment_restore(comment) ==
  [comment EXCEPT !.isDeleted = FALSE, !.deletedAt = 0]

\* CommentThread.create that accepts a parent of any task.
CommentThread_create_anyTask(rows, newId, taskId, userId, content, parentId) ==
  IF parentId # 0 /\ ~ \E p \in rows : p.id = parentId
  THEN [result |-> "ParentNotFound", comments |-> rows]
  ELSE [result |-> "ok",
        comments |-> rows \cup {NewComment(newId, taskId, userId, content,
                                           parentId)}]

\* CommentThread.create(taskId, userId, content, parentId?)
CommentThread_create(rows, newId, taskId, userId, content, parentId) ==
  IF parentId # 0 /\ ~ \E p \in rows : p.id = parentId /\ p.taskId = taskId
  THEN [result |-> "ParentNotFound", comments |-> rows]
  ELSE [result |-> "ok",
        comments |-> rows \cup {NewComment(newId, taskId, userId, content,
                                           parentId)}]

\* CommentThread.edit(comment, newContent, actor)
CommentThread_edit(comment, newContent, actor) ==
  IF actor.id = comment.userId
  THEN [result |-> "ok",
        comment |-> Comment_markAsEdited([comment EXCEPT
                                            !.content = newContent])]
  ELSE [result |-> "Forbidden", comment |-> comment]

CreateComment ==
  /\ \E task \in tasks, user \in users, content \in Contents,
        parentId \in {0} \cup CommentIds :
       LET r == CommentThread_create(comments, nextCommentId, task.id,
                                     user.id, content, parentId) IN
       /\ r.result = "ok" => nextCommentId <= MaxComments
       /\ comments' = r.comments
       /\ nextCommentId' = IF r.result = "ok" THEN nextCommentId + 1
                           ELSE nextCommentId
       /\ lastComment' = [NoComment EXCEPT
                            !.op = "create", !.result = r.result,
                            !.id = IF r.result = "ok" THEN nextCommentId
                                   ELSE 0,
                            !.taskId = task.id, !.parentId = parentId]
  /\ UNCHANGED <<users, nextUserId, tasks, req, lastTransition, clock, txs>>

EditComment ==
  /\ \E comment \in comments, newContent \in Contents, actor \in users :
       LET r == CommentThread_edit(comment, newContent, actor) IN
       /\ comments' = (comments \ {comment}) \cup {r.comment}
       /\ lastComment' = [NoComment EXCEPT
                            !.op = "edit", !.result = r.result,
                            !.id = comment.id, !.actor = actor.id,
                            !.content = newContent]
  /\ UNCHANGED <<users, nextUserId, tasks, req, lastTransition,
                 nextCommentId, clock, txs>>

SoftDeleteComment ==
  /\ \E comment \in comments, clearContent \in BOOLEAN :
       /\ comments' = (comments \ {comment})
                        \cup {Comment_softDelete(comment, clearContent)}
       /\ lastComment' = [NoComment EXCEPT
                            !.op = "softDelete", !.result = "ok",
                            !.id = comment.id, !.clear = clearContent]
  /\ UNCHANGED <<users, nextUserId, tasks, req, lastTransition,
                 nextCommentId, clock, txs>>

RestoreComment ==
  /\ \E comment \in comments :
       /\ comments' = (comments \ {comment}) \cup {Comment_restore(comment)}
       /\ lastComment' = [NoComment EXCEPT
                            !.op = "restore", !.result = "ok",
                            !.id = comment.id]
  /\ UNCHANGED <<users, nextUserId, tasks, req, lastTransition,
                 nextCommentId, clock, txs>>

\* Removal of a tasks row with what the foreign key does to its comments.
RemoveTaskRow ==
  /\ \E t \in tasks :
       /\ tasks' = tasks \ {t}
       /\ comments' = CascadeTaskRemoval(comments, {t.id})
  /\ lastComment' = [NoComment EXCEPT !.op = "removeTask"]
  /\ UNCHANGED <<users, nextUserId, req, lastTransition, nextCommentId,
                 clock, txs>>

\* Removal of a comments row with what the foreign key does to its replies.
RemoveCommentRow ==
  /\ \E c \in comments :
       /\ comments' = CascadeCommentRemoval(comments, {c.id})
       /\ lastComment' = [NoComment EXCEPT !.op = "removeComment",
                                           !.id = c.id]
  /\ UNCHANGED <<users, nextUserId, tasks, req, lastTransition,
                 nextCommentId, clock, txs>>

NextComment ==
  \/ CreateComment
  \/ EditComment
  \/ SoftDeleteComment
  \/ RestoreComment
  \/ RemoveUserRow
  \/ RemoveTaskRow
  \/ RemoveCommentRow

SpecComment == InitComment /\ [][NextComment]_vars

\* ============================================================= properties
Terminal == {"DONE", "CANCELLED"}

\* The transition table as the specification prints it.
TableEdges ==
  {<<"TODO", "IN_PROGRESS">>, <<"TODO", "CANCELLED">>,
   <<"IN_PROGRESS", "IN_REVIEW">>, <<"IN_PROGRESS", "TODO">>,
   <<"IN_PROGRESS", "CANCELLED">>,
   <<"IN_REVIEW", "DONE">>, <<"IN_REVIEW", "IN_PROGRESS">>,
   <<"IN_REVIEW", "CANCELLED">>}

Ran(guard) == Includes(req.guardsRun, guard)

\* What the route declares, method level first, read off the declarations.
MarkedPublic ==
  req.handlerMeta.isPublic = Public \/ req.classMeta.isPublic = Public

DeclaredRoles ==
  IF req.handlerMeta.roles.defined THEN req.handlerMeta.roles
  ELSE req.classMeta.roles

C3_AllowsIffRoleAndActive ==
  (req.pc = "done" /\ Ran("RolesGuard")) =>
    \A r \in UserRole :
      DeclaredRoles = Roles(<<r>>) =>
        ((req.deniedBy # "RolesGuard")
           <=> (req.user.role = r /\ req.user.isActive))

\* C4: on a route marked Public the JwtAuthGuard passes the request without
\* looking at the credential and attaches no principal; on any other route a
\* request without a credential ends Unauthenticated.
C4_PublicSkipsAuthElseCredentialRequired ==
  Ran("JwtAuthGuard") =>
    /\ MarkedPublic =>
         /\ req.deniedBy # "JwtAuthGuard"
         /\ ~req.credInspected
         /\ req.user = NoUser
    /\ (~MarkedPublic /\ req.cred.kind = "none") =>
         /\ req.pc = "done"
         /\ req.outcome = "Unauthenticated"
         /\ req.deniedBy = "JwtAuthGuard"
         /\ ~req.handlerInvoked

C4_Witness ==
  /\ req.pc = "done"
  /\ req.handlerMeta.isPublic = NoPublic
  /\ req.classMeta.isPublic = Public
  /\ req.cred.kind = "valid"
  /\ \E u \in users : u.id = req.cred.sub /\ u.isActive
  /\ req.user = NoUser
  /\ req.handlerInvoked

\* C5: on a non-public route with a verified credential, the JwtAuthGuard
\* ends the request Unauthenticated when the users table has no row with the
\* token's subject id or that row is inactive; otherwise request.user is
\* exactly that row.
C5_PrincipalIsRepositoryRow ==
  (Ran("JwtAuthGuard") /\ ~MarkedPublic /\ req.cred.kind = "valid") =>
    LET rows == findOneById(req.usersAtStart, req.cred.sub) IN
    IF rows = {} \/ \E u \in rows : ~u.isActive
    THEN /\ req.pc = "done"
         /\ req.outcome = "Unauthenticated"
         /\ req.deniedBy = "JwtAuthGuard"
         /\ req.user = NoUser
    ELSE /\ req.user \in rows
         /\ req.deniedBy # "JwtAuthGuard"

C5_Witness ==
  /\ req.pc = "done"
  /\ req.route = "GET /users/me"
  /\ req.cred.kind = "valid"
  /\ \E u \in req.usersAtStart : u.id = req.cred.sub /\ ~u.isActive
  /\ req.outcome = "Unauthenticated"

\* C6: the RolesGuard evaluates a request only after the JwtAuthGuard has
\* completed on it, so on a non-public route it always finds a principal.
C6_AuthenticationBeforeAuthorization ==
  Ran("RolesGuard") =>
    /\ req.guardsRun = <<"JwtAuthGuard", "RolesGuard">>
    /\ ~MarkedPublic => req.user # NoUser

C6_Witness ==
  /\ req.route = "GET /users"
  /\ Ran("RolesGuard")
  /\ req.user.role = "ADMIN"
  /\ req.pc = "handler"

\* C7: a request a guard denied (Unauthenticated from the JwtAuthGuard,
\* Forbidden from the RolesGuard) never reaches its handler and leaves the
\* users and tasks tables as they were when it arrived.
C7_DenialShortCircuits ==
  req.deniedBy \in {"JwtAuthGuard", "RolesGuard"} =>
    /\ req.pc = "done"
    /\ ~req.handlerInvoked
    /\ req.outcome =
         (IF req.deniedBy = "JwtAuthGuard" THEN "Unauthenticated"
          ELSE "Forbidden")
    /\ users = req.usersAtStart
    /\ tasks = {}

C7_Witness ==
  /\ req.pc = "done"
  /\ req.route = "DELETE /users/:id"
  /\ req.deniedBy = "RolesGuard"
  /\ req.user.role = "MEMBER"
  /\ Cardinality(users) = 2

\* C8: with no @Roles() at either level, or an empty effective role list, the
\* RolesGuard allows every request that reaches it, with or without a
\* principal and whatever its role.
C8_NoRolesMeansNoRestriction ==
  (Ran("RolesGuard")
     /\ (~DeclaredRoles.defined \/ DeclaredRoles.value = <<>>)) =>
    /\ req.deniedBy # "RolesGuard"
    /\ req.pc \in {"handler", "done"}
    /\ req.pc = "done" => (req.handlerInvoked /\ req.outcome = "ok")

C8_Witness ==
  /\ req.pc = "done"
  /\ DeclaredRoles = Roles(<<>>)
  /\ req.classMeta.roles = Roles(<<"ADMIN">>)
  /\ MarkedPublic
  /\ req.user = NoUser
  /\ req.handlerInvoked

\* C9: on a route that is Public and has a non-empty effective role list,
\* every request ends Forbidden at the RolesGuard, a valid credential of a
\* user holding a required role included.
C9_PublicWithRolesAlwaysForbidden ==
  (req.pc \in {"handler", "done"} /\ MarkedPublic
     /\ DeclaredRoles.defined /\ DeclaredRoles.value # <<>>) =>
    /\ req.pc = "done"
    /\ req.outcome = "Forbidden"
    /\ req.deniedBy = "RolesGuard"
    /\ ~req.handlerInvoked

C9_Witness ==
  /\ req.pc = "done"
  /\ MarkedPublic
  /\ DeclaredRoles = Roles(<<"ADMIN">>)
  /\ req.cred.kind = "valid"
  /\ \E u \in users :
       u.id = req.cred.sub /\ u.role = "ADMIN" /\ u.isActive
  /\ req.outcome = "Forbidden"

\* C10: each guard reads the method-level declaration of its policy kind when
\* there is one and the class-level one otherwise; a route declaring nothing
\* requires authentication and accepts any role.
C10_MethodOverridesClass ==
  /\ Ran("JwtAuthGuard") =>
       req.isPublic = (IF req.handlerMeta.isPublic.defined
                       THEN req.handlerMeta.isPublic
                       ELSE req.classMeta.isPublic)
  /\ Ran("RolesGuard") =>
       req.requiredRoles = (IF req.handlerMeta.roles.defined
                            THEN req.handlerMeta.roles
                            ELSE req.classMeta.roles)
  /\ (req.pc = "done" /\ req.handlerMeta = NoMeta /\ req.classMeta = NoMeta) =>
       /\ req.handlerInvoked <=> req.user # NoUser
       /\ req.user = NoUser => req.outcome = "Unauthenticated"

C10_Witness ==
  /\ req.pc = "done"
  /\ req.handlerMeta.roles = Roles(<<"ADMIN">>)
  /\ req.classMeta.roles = Roles(<<"MEMBER">>)
  /\ req.handlerMeta.isPublic = NoPublic
  /\ req.classMeta.isPublic = NoPublic
  /\ req.user.role = "ADMIN"
  /\ req.handlerInvoked

\* ------------------------------------------------------- users endpoints
UpdateDone ==
  req.pc = "done" /\ req.route = "PATCH /users/:id" /\ req.handlerInvoked

TargetExisted == findOneById(req.usersAtStart, req.targetId) # {}

IsOwnProfile == req.user.id = req.targetId

IsAdmin == req.user.role = "ADMIN"

SubmitsRestricted == req.dto.role # "" \/ req.dto.isActive # "undefined"

EmailTaken ==
  /\ req.dto.email # ""
  /\ \E u \in req.usersAtStart :
       u.email = req.dto.email /\ u.id # req.targetId

Authenticated ==
  /\ req.cred.kind = "valid"
  /\ \E u \in req.usersAtStart : u.id = req.cred.sub /\ u.isActive

C13_EndpointAccessMatrix ==
  req.pc = "done" =>
    /\ (req.route \in {"GET /users", "DELETE /users/:id"}
          /\ req.handlerInvoked) =>
         (Authenticated /\ req.user.id = req.cred.sub /\ IsAdmin)
    /\ req.route \in {"POST /auth/register", "POST /auth/login"} =>
         (req.handlerInvoked /\ req.user = NoUser)
    /\ req.route \in {"GET /users/me", "GET /users/:id",
                      "PATCH /users/:id"} =>
         (req.handlerInvoked <=> Authenticated)

C13_Witness ==
  /\ req.pc = "done"
  /\ req.route = "GET /users/:id"
  /\ req.handlerInvoked
  /\ req.user.role = "MEMBER"

\* ------------------------------------------------------------ task frame
\* Only a transition(task, requested) call changes lastTransition.
TransitionStep == lastTransition' # lastTransition

\* C19: a successful transition changes only the status and updatedAt of the
\* task it is given (title, priority, dueDate, assigneeId, createdAt and
\* every other row and table stay as they were), and no step of any
\* operation changes the creatorId of a task that exists before and after it.
C19_TransitionFrameAndCreatorFixed ==
  [][/\ \A t \in tasks, u \in tasks' :
          u.id = t.id => u.creatorId = t.creatorId
     /\ (TransitionStep /\ lastTransition'.result = "ok") =>
          \E t \in tasks, u \in tasks' :
            /\ t.id = lastTransition'.id /\ u.id = t.id
            /\ tasks' \ {u} = tasks \ {t}
            /\ u.status = lastTransition'.requested
            /\ u.status # t.status
            /\ [u EXCEPT !.status = t.status, !.updatedAt = t.updatedAt] = t
            /\ users' = users /\ comments' = comments]_vars

C19_Witness ==
  /\ lastTransition.result = "ok"
  /\ \E t \in tasks :
       /\ t.id = lastTransition.id
       /\ t.status = lastTransition.requested
       /\ t.updatedAt > t.createdAt
       /\ t.priority = "URGENT" /\ t.dueDate # 0 /\ t.assigneeId # 0

\* C20: a transition request refused with InvalidTransition writes nothing:
\* the tasks table, the task's status included, is exactly as before the
\* call, and so are the other tables.
C20_RefusedTransitionWritesNothing ==
  [][(TransitionStep /\ lastTransition'.result = "InvalidTransition") =>
       /\ tasks' = tasks
       /\ lastTransition'.after = lastTransition'.from
       /\ users' = users /\ comments' = comments]_vars

C20_Witness ==
  /\ lastTransition.result = "InvalidTransition"
  /\ lastTransition.requested # lastTransition.from
  /\ STATUS_TRANSITIONS[lastTransition.from] # <<>>
  /\ \E t \in tasks :
       t.id = lastTransition.id /\ t.status = lastTransition.from

\* -------------------------------------------------------- comment threads
\* A step of the named operation on the comments table.
CommentStep(op) == lastComment' # lastComment /\ lastComment'.op = op

\* C14: CommentThread.create given a parentId that names no existing
\* comment, or a comment of another task, fails with ParentNotFound and
\* creates nothing; given the id of an existing comment of the same task it
\* succeeds, adds exactly the new comment, and that comment's parentId is
\* the given id.
C14_CreateChecksParent ==
  [][CommentStep("create") =>
       LET g == lastComment'
           resolves == \E p \in comments :
                         p.id = g.parentId /\ p.taskId = g.taskId
       IN
       /\ (g.parentId # 0 /\ ~resolves) =>
            /\ g.result = "ParentNotFound"
            /\ comments' = comments
            /\ nextCommentId' = nextCommentId
       /\ (g.parentId # 0 /\ resolves) =>
            /\ g.result = "ok"
            /\ \E c \in comments' :
                 /\ c.id \notin {x.id : x \in comments}
                 /\ comments' = comments \cup {c}
                 /\ c.id = g.id
                 /\ c.taskId = g.taskId
                 /\ c.parentId = g.parentId]_vars

C14_Witness ==
  /\ lastComment.op = "create"
  /\ lastComment.result = "ParentNotFound"
  /\ \E p \in comments :
       p.id = lastComment.parentId /\ p.taskId # lastComment.taskId

\* C15: in every state of the comments table, after any sequence of create,
\* edit, softDelete, restore and removals of users, tasks or comments with
\* their cascades, every comment with a parentId references a comment that
\* still exists and has the same taskId, and no comment is its own parent.
C15_ParentExistsInSameTask ==
  \A c \in comments :
    c.parentId # 0 =>
      /\ c.parentId # c.id
      /\ \E p \in comments : p.id = c.parentId /\ p.taskId = c.taskId

C15_Witness ==
  /\ lastComment.op = "removeUser"
  /\ Cardinality(tasks) < Cardinality(SeedTasks)
  /\ \E c \in comments, p \in comments :
       c.parentId = p.id /\ p.isDeleted /\ c.isEdited

\* C16: softDelete(clearContent = true) leaves the comment deleted with the
\* placeholder as content, and restore() clears isDeleted and deletedAt but
\* keeps the content it finds: after softDelete(true), restore and any
\* further restore calls the content is still the placeholder.
C16_RestoreKeepsPlaceholder ==
  [][/\ (CommentStep("softDelete") /\ lastComment'.clear) =>
          \E d \in comments' :
            /\ d.id = lastComment'.id
            /\ d.isDeleted /\ d.deletedAt # 0
            /\ d.content = Placeholder
     /\ CommentStep("restore") =>
          \E c \in comments, d \in comments' :
            /\ c.id = lastComment'.id /\ d.id = c.id
            /\ ~d.isDeleted /\ d.deletedAt = 0
            /\ d.content = c.content
            /\ comments' \ {d} = comments \ {c}]_vars

C16_Witness ==
  /\ lastComment.op = "restore"
  /\ \E c \in comments :
       /\ c.id = lastComment.id
       /\ ~c.isDeleted /\ c.deletedAt = 0
       /\ ~c.isEdited
       /\ c.content = Placeholder

\* C17: softDelete of a comment changes only that comment's isDeleted,
\* deletedAt and, when clearContent is true, content: the comment stays in
\* the table under its id, and every other row, its replies included, is
\* unchanged and still references it.
C17_SoftDeleteTouchesOnlyItsComment ==
  [][CommentStep("softDelete") =>
       \E c \in comments, d \in comments' :
         /\ c.id = lastComment'.id /\ d.id = c.id
         /\ comments' \ {d} = comments \ {c}
         /\ [d EXCEPT !.isDeleted = c.isDeleted, !.deletedAt = c.deletedAt,
                      !.content = c.content] = c
         /\ ~lastComment'.clear => d.content = c.content
         /\ \A r \in comments :
              r.parentId = c.id => (r.id # c.id => r \in comments')
         /\ users' = users /\ tasks' = tasks]_vars

C17_Witness ==
  /\ lastComment.op = "softDelete"
  /\ \E c \in comments, r \in comments :
       /\ c.id = lastComment.id
       /\ c.isDeleted /\ c.content = Placeholder
       /\ r.parentId = c.id
       /\ ~r.isDeleted /\ r.content \in Contents

\* C18: edit(comment, newContent, actor) succeeds exactly when actor.id ==
\* comment.userId, and then the comment has content newContent and isEdited
\* true, also when newContent is the content it had; for any other actor,
\* an ADMIN included, it fails with Forbidden and nothing is written.
C18_OnlyAuthorEdits ==
  [][CommentStep("edit") =>
       \E c \in comments :
         /\ c.id = lastComment'.id
         /\ IF lastComment'.actor = c.userId
            THEN /\ lastComment'.result = "ok"
                 /\ comments' =
                      (comments \ {c})
                        \cup {[c EXCEPT !.content = lastComment'.content,
                                        !.isEdited = TRUE]}
            ELSE /\ lastComment'.result = "Forbidden"
                 /\ comments' = comments]_vars

C18_Witness ==
  /\ lastComment.op = "edit"
  /\ lastComment.result = "Forbidden"
  /\ \E u \in users : u.id = lastComment.actor /\ u.role = "ADMIN"
  /\ \E c \in comments : c.id = lastComment.id /\ ~c.isEdited

\* ------------------------------------------------------------ user removal
\* C21: when a users row is removed, every task assigned to that user and
\* created by another user stays with assigneeId null and nothing else
\* changed, every task the user created and every comment the user wrote is
\* gone, and in every state each task's assigneeId is null or the id of an
\* existing user.
C21_RemovalNullsAssigneeDeletesOwned ==
  /\ [](\A t \in tasks :
          t.assigneeId = 0 \/ \E u \in users : u.id = t.assigneeId)
  /\ [][\A u \in users \ users' :
          /\ \A t \in tasks :
               IF t.creatorId = u.id
               THEN ~ \E x \in tasks' : x.id = t.id
               ELSE [t EXCEPT !.assigneeId = IF @ = u.id THEN 0 ELSE @]
                      \in tasks'
          /\ \A c \in comments :
               c.userId = u.id => ~ \E x \in comments' : x.id = c.id]_vars

C21_Witness ==
  /\ lastComment.op = "removeUser"
  /\ ~ \E u \in users : u.id = 1
  /\ \E t \in tasks : t.id = 2 /\ t.creatorId = 2 /\ t.assigneeId = 0
  /\ ~ \E t \in tasks : t.id = 1
  /\ nextCommentId > 1
  /\ \A c \in comments : c.userId = 2 /\ c.taskId = 2

\* ------------------------------------------------------- email uniqueness
RegisterDone ==
  req.pc = "done" /\ req.route = "POST /auth/register" /\ req.handlerInvoked

\* The update reached the uniqueness check: the target exists and neither
\* Forbidden check applies.
UpdatePermitted ==
  /\ TargetExisted
  /\ IsOwnProfile \/ IsAdmin
  /\ IsAdmin \/ ~SubmitsRestricted

RowOfToken == {u \in req.usersAtStart : u.id = req.cred.sub}

PublicRoutes == {"GET /", "POST /auth/register", "POST /auth/login"}

AdminRoutes == {"GET /admin", "GET /users", "DELETE /users/:id"}

C25_OnlyAdminChangesRoleOrActive ==
  [][\A u \in users, v \in users' :
       (u.id = v.id /\ (u.role # v.role \/ u.isActive # v.isActive)) =>
         /\ req.pc = "handler"
         /\ req.route = "PATCH /users/:id"
         /\ req.user.role = "ADMIN"
         /\ req.user \in users]_vars

C25_Witness ==
  /\ UpdateDone
  /\ req.outcome = "ok"
  /\ ~IsOwnProfile
  /\ req.dto.role = "ADMIN"
  /\ \E u \in req.usersAtStart : u.id = req.targetId /\ u.role = "MEMBER"
  /\ \E u \in users : u.id = req.targetId /\ u.role = "ADMIN"

\* ---------------------------------------------------------------------------
\* The account services called directly
\* ---------------------------------------------------------------------------

Called(op) == req.pc = "done" /\ req.route = op

\* The row the last call was aimed at, before and after the call.
TargetBefore == findOneById(req.usersAtStart, req.targetId)

TargetAfter == findOneById(users, req.targetId)

\* C26: UsersService.remove answers Forbidden to an actor who is not an ADMIN
\* and to an ADMIN who targets their own id, in both cases whether or not the
\* target exists; it answers NotFound for a missing target otherwise; a
\* failing call removes no user; a successful call removes exactly the
\* target, which is never the actor.
C26_RemoveChecksActorBeforeTarget ==
  Called("UsersService.remove") =>
    /\ req.user.role # "ADMIN" => req.outcome = "Forbidden"
    /\ req.user.role = "ADMIN" /\ req.user.id = req.targetId
         => req.outcome = "Forbidden"
    /\ req.user.role = "ADMIN" /\ req.user.id # req.targetId
         => req.outcome = IF TargetBefore = {} THEN "NotFound" ELSE "ok"
    /\ req.outcome # "ok" => users = req.usersAtStart
    /\ req.outcome = "ok" =>
         /\ users = req.usersAtStart \ TargetBefore
         /\ TargetBefore # {}
         /\ req.user \in users

\* A stored MEMBER asks to remove an id nobody has, and is answered Forbidden.
C26_Witness ==
  /\ Called("UsersService.remove")
  /\ req.user.role = "MEMBER"
  /\ req.user \in req.usersAtStart
  /\ TargetBefore = {}
  /\ req.outcome = "Forbidden"

\* C27: login fails with Unauthenticated when no user has the email, when
\* the password does not verify, or when the user is inactive, tested in that
\* order: "deactivated" is told only to a caller whose password verifies on
\* an existing account; login succeeds exactly for an existing active user
\* with a verifying password; and login leaves the users table as it was.
C27_LoginChecksInOrder ==
  Called("AuthService.login") =>
    LET found == findOneByEmail(req.usersAtStart, req.dto.email)
        verifies(u) == bcrypt_compare(req.dto.password, u.password)
    IN
    /\ users = req.usersAtStart
    /\ req.outcome \in {"ok", "Unauthenticated"}
    /\ found = {} =>
         req.outcome = "Unauthenticated" /\ req.message = "Invalid credentials"
    /\ \A u \in found :
         /\ ~verifies(u) =>
              /\ req.outcome = "Unauthenticated"
              /\ req.message = "Invalid credentials"
         /\ verifies(u) /\ ~u.isActive =>
              /\ req.outcome = "Unauthenticated"
              /\ req.message = "Account is deactivated"
         /\ verifies(u) /\ u.isActive => req.outcome = "ok"
    /\ req.outcome = "ok" => \E u \in found : verifies(u) /\ u.isActive
    /\ req.message = "Account is deactivated" => \E u \in found : verifies(u)

\* A deactivated account is told so after its correct password was given,
\* while another login on a deactivated account can still fail on the password.
C27_Witness ==
  /\ Called("AuthService.login")
  /\ req.outcome = "Unauthenticated"
  /\ req.message = "Account is deactivated"
  /\ \E u \in users :
       /\ u.email = req.dto.email
       /\ ~u.isActive
       /\ bcrypt_compare(req.dto.password, u.password)

\* C30: after a register, and after an update whose body carries an accepted
\* password, the stored password is the hash of what was submitted and not
\* the submitted characters, also when these begin with "$2b$"; an update
\* without a password leaves the stored password as it was.
C30_StoredPasswordIsHashOfSubmitted ==
  /\ Called("AuthService.register") /\ req.outcome = "ok" =>
       \A u \in users \ req.usersAtStart :
         /\ u.password = bcrypt_hash(req.dto.password)
         /\ u.password # req.dto.password
  /\ Called("UsersService.update") /\ req.outcome = "ok" =>
       \A u \in TargetAfter, old \in TargetBefore :
         IF req.dto.password = <<>>
         THEN u.password = old.password
         ELSE /\ PasswordAccepted(req.dto.password)
              /\ u.password = bcrypt_hash(req.dto.password)
              /\ u.password # req.dto.password

\* C29: on every comment that softDelete and restore calls have produced
\* from a fresh one, isDeleted is true exactly when deletedAt holds a
\* timestamp; restoring twice gives what restoring once gives; and
\* softDelete(false) followed by restore gives back the content (and the
\* undeleted state) the comment had.
C29_DeletedIffTimestamp ==
  \A c \in comments :
    /\ c.isDeleted <=> c.deletedAt # 0
    /\ Comment_restore(Comment_restore(c)) = Comment_restore(c)
    /\ LET d == Comment_softDelete(c, FALSE) IN
       /\ d.isDeleted /\ d.deletedAt # 0
       /\ d.content = c.content
       /\ Comment_restore(d).content = c.content
       /\ ~Comment_restore(d).isDeleted /\ Comment_restore(d).deletedAt = 0
       /\ ~c.isDeleted => Comment_restore(d) = c

\* One comment has been restored with its own words, while another is still
\* soft-deleted with its content kept.
C29_Witness ==
  /\ lastComment.op = "restore"
  /\ \E c \in comments, d \in comments :
       /\ c.id = lastComment.id
       /\ ~c.isDeleted /\ c.deletedAt = 0 /\ c.content \in Contents
       /\ d.id # c.id
       /\ d.isDeleted /\ d.deletedAt # 0 /\ d.content \in Contents

\* ---------------------------------------------------------------------------
\* Requests served at the same time
\* ---------------------------------------------------------------------------

\* The step in which worker w writes.
Writes(w) == txs[w].pc = "read" /\ txs'[w].pc = "done"

\* C23: a transition request is accepted exactly when the table allows the
\* requested status from the status the request READ, whatever the stored
\* status has become since; an accepted request persists its status over
\* whatever is stored, and a refused one writes nothing. So two requests
\* that read the same status are both accepted and the later write stands.
C23_CheckedAgainstStatusRead ==
  [][\A w \in Workers :
       (Writes(w) /\ txs[w].op = "transition") =>
         LET allowed ==
               Includes(STATUS_TRANSITIONS[txs[w].row.status], txs[w].arg)
         IN
         /\ txs'[w].result = IF allowed THEN "ok" ELSE "InvalidTransition"
         /\ allowed =>
              /\ \E t \in tasks' : t.id = txs[w].id /\ t.status = txs[w].arg
              /\ {t \in tasks' : t.id # txs[w].id}
                   = {t \in tasks : t.id # txs[w].id}
         /\ ~allowed => tasks' = tasks]_vars

\* Both requests read IN_REVIEW; A moved the task to DONE, then B, accepted
\* on what it had read, moved it to IN_PROGRESS: the task left a terminal
\* status, and DONE -> IN_PROGRESS is no edge of the table.
C23_Witness ==
  /\ txs["A"].pc = "done" /\ txs["B"].pc = "done"
  /\ txs["A"].id = txs["B"].id
  /\ txs["A"].row.status = "IN_REVIEW" /\ txs["B"].row.status = "IN_REVIEW"
  /\ txs["A"].result = "ok" /\ txs["A"].arg = "DONE"
  /\ txs["A"].found = "IN_REVIEW"
  /\ txs["B"].result = "ok" /\ txs["B"].arg = "IN_PROGRESS"
  /\ txs["B"].found = "DONE"
  /\ ~Includes(STATUS_TRANSITIONS["DONE"], "IN_PROGRESS")
  /\ \E t \in tasks : t.id = txs["B"].id /\ t.status = "IN_PROGRESS"

\* C28: when account requests for one email interleave between their
\* uniqueness check and their save, no two stored users share the email, and
\* every request that finishes without storing its row is answered with one
\* of the service's own error kinds (Conflict for the email), never with an
\* unclassified error.
C28_RaceLoserGetsConflict ==
  /\ \A u \in users, v \in users : u.email = v.email => u.id = v.id
  /\ \A w \in Workers :
       (txs[w].pc = "done" /\ txs[w].result # "ok") =>
         /\ txs[w].result \in HttpExceptions
         /\ (\E u \in users : u.email = txs[w].arg /\ u.id # txs[w].id)
              => txs[w].result = "Conflict"

================================================================================
